---- MODULE Spec2Model ----
(***************************************************************************)
(* Model of the truckload splitter's orders/create webhook handler         *)
(* (src/server.js lines 25-198) and of its partition arithmetic.           *)
(*                                                                         *)
(* Strings are sequences of one-character strings.  The sentinel tag       *)
(* "Split-Processed" is written with the two characters <<"S","P">>: like  *)
(* the real text it contains no comma and no blank, and no proper prefix   *)
(* of it is also a suffix of it.                                           *)
(***************************************************************************)
EXTENDS Integers, Sequences, FiniteSets, TLC

\* ------------------------------------------------------------------ bounds
MaxPartQty == 8
MaxPartCap == 8
MaxQty == 3
MaxItems == 2
MaxTagLen == 3
MaxCap == 3
MaxMeta == 2
MaxDeliveries == 2
\* passes of a greedy loop that are followed: one more than any loop that ends
\* can need for a quantity within MaxPartQty
MaxPasses == MaxPartQty + 1

\* ----------------------------------------------------------------- strings
Chars == {"S", "P", "a", ",", " "}

SplitProcessed == <<"S", "P">>

Separator == <<",", " ">>

RECURSIVE StringsUpTo(_)
StringsUpTo(n) ==
  IF n = 0 THEN {<<>>}
  ELSE LET shorter == StringsUpTo(n - 1)
       IN  shorter \cup {Append(s, ch) : s \in {t \in shorter : Len(t) = n - 1}, ch \in Chars}

\* String.prototype.includes
StrIncludes(s, t) ==
  \E k \in 0..(Len(s) - Len(t)) : SubSeq(s, k + 1, k + Len(t)) = t

\* number of (possibly overlapping) occurrences of t in s
Occurrences(s, t) ==
  Cardinality({k \in 0..(Len(s) - Len(t)) : SubSeq(s, k + 1, k + Len(t)) = t})

RECURSIVE TrimStart(_)
TrimStart(s) ==
  IF s # <<>> /\ Head(s) = " " THEN TrimStart(Tail(s)) ELSE s

RECURSIVE TrimEnd(_)
TrimEnd(s) ==
  IF s # <<>> /\ s[Len(s)] = " " THEN TrimEnd(SubSeq(s, 1, Len(s) - 1)) ELSE s

\* String.prototype.trim
Trim(s) == TrimEnd(TrimStart(s))

\* --------------------------------------------------------------- partition
RECURSIVE Fill(_, _)
Fill(n, v) == IF n <= 0 THEN <<>> ELSE <<v>> \o Fill(n - 1, v)

RECURSIVE SeqSum(_)
SeqSum(s) == IF s = <<>> THEN 0 ELSE Head(s) + SeqSum(Tail(s))

\* a plausible slip: the remainder entry is dropped
SplitQuantitiesNoRemainder(quantity, truckloadCapacity) ==
  Fill(quantity \div truckloadCapacity, truckloadCapacity)

\* fullLoads entries of the capacity, then the remainder if it is positive
SplitQuantities(quantity, truckloadCapacity) ==
  LET fullLoads == quantity \div truckloadCapacity
      remainder == quantity % truckloadCapacity
      filled    == Fill(fullLoads, truckloadCapacity)
  IN  IF remainder > 0 THEN Append(filled, remainder) ELSE filled

\* ------------------------------------------------------------------- state
VARIABLES
  order,          \* the order as the notification carries it (req.body)
  other,          \* a second, different order notified alongside, if any
  handler,        \* which rewrite of the handler is deployed
  maxDeliveries,  \* how many times the sender delivers the notification
  concurrent,     \* whether the host runs deliveries concurrently
  run,            \* per delivery: the handler invocation's position and locals
  storeTags,      \* the original order's tags in the external system
  part            \* the partitioner's input and output, for its own specification

vars == <<order, other, handler, maxDeliveries, concurrent, run, storeTags, part>>

Deliveries == 1..MaxDeliveries

\* ------------------------------------------------------------ order inputs
\* order.tags: absent, a string, or a list of strings (v holds the string as its
\* only element, or the list's elements)
NoTags == [kind |-> "none", v |-> <<>>]

StrTags(s) == [kind |-> "str", v |-> <<s>>]

ListTags(l) == [kind |-> "list", v |-> l]

ProductIds == {0, 1}

VariantIds == {0, 1}

ItemInputs == [product_id : ProductIds, variant_id : VariantIds, quantity : 1..MaxQty]

RECURSIVE SeqsUpTo(_, _)
SeqsUpTo(S, n) ==
  IF n = 0 THEN {<<>>}
  ELSE LET shorter == SeqsUpTo(S, n - 1)
       IN  shorter \cup {Append(s, x) : s \in {t \in shorter : Len(t) = n - 1}, x \in S}

\* order.line_items: absent (not an array) or an array of line items
LineItemInputs ==
  {[present |-> FALSE, items |-> <<>>]}
    \cup {[present |-> TRUE, items |-> l] : l \in SeqsUpTo(ItemInputs, MaxItems)}

BasicLineItems ==
  {[present |-> TRUE, items |-> <<[product_id |-> 1, variant_id |-> 1, quantity |-> 2]>>]}

RetryLineItems ==
  {li \in LineItemInputs :
     Len(li.items) <= 1 /\ \A n \in 1..Len(li.items) : li.items[n].product_id = li.items[n].variant_id}
    \cup {[present |-> TRUE,
           items |-> <<[product_id |-> 1, variant_id |-> 1, quantity |-> 2],
                       [product_id |-> 1, variant_id |-> 1, quantity |-> 1]>>]}

RetryTags == {NoTags, StrTags(<<"a">>), StrTags(SplitProcessed), ListTags(<<>>)}

BasicTags ==
  {NoTags, StrTags(<<>>), StrTags(<<"a">>), StrTags(SplitProcessed),
   ListTags(<<>>), ListTags(<<<<"a">>>>), ListTags(<<SplitProcessed>>)}

TagInputs == BasicTags \cup {StrTags(s) : s \in StringsUpTo(MaxTagLen)}

\* ------------------------------------------------------- capacity metadata
DigitChars == <<"0", "1", "2", "3", "4", "5", "6", "7", "8", "9">>

DigitValue(ch) == CHOOSE d \in 0..9 : DigitChars[d + 1] = ch

IsDigit(ch) == \E d \in 0..9 : DigitChars[d + 1] = ch

NotANumber == [finite |-> FALSE, n |-> 0]

RECURSIVE ParseDigits(_, _, _)
\* the digits at the head of s, read in base 10 onto acc; any is whether one was read
ParseDigits(s, acc, any) ==
  IF s # <<>> /\ IsDigit(Head(s))
  THEN ParseDigits(Tail(s), 10 * acc + DigitValue(Head(s)), TRUE)
  ELSE [any |-> any, n |-> acc]

\* parseInt(value, 10): leading blanks, an optional sign, then digits up to the
\* first other character; NaN when there is no digit
ParseInt(value) ==
  LET s      == TrimStart(value)
      neg    == s # <<>> /\ Head(s) = "-"
      body   == IF s # <<>> /\ Head(s) \in {"-", "+"} THEN Tail(s) ELSE s
      digits == ParseDigits(body, 0, FALSE)
  IN  IF ~digits.any THEN NotANumber
      ELSE [finite |-> TRUE, n |-> IF neg THEN 0 - digits.n ELSE digits.n]

ValueInputs ==
  {<<DigitChars[d + 1]>> : d \in 0..MaxCap}
    \cup {<<"x">>, <<"-", "1">>, <<"1", "x">>, <<" ", "2">>}

\* a metafield record of the catalog's answer; null is a JSON null in the array
NullMeta == [null |-> TRUE, key |-> "", namespace |-> "", value |-> <<>>]

MetaInputs ==
  {NullMeta}
    \cup [null : {FALSE}, key : {"truckload_capacity"}, namespace : {"custom", "logistics"},
          value : ValueInputs]
    \cup {[null |-> FALSE, key |-> "truckload_capacity", namespace |-> "other", value |-> <<"1">>],
          [null |-> FALSE, key |-> "other", namespace |-> "custom", value |-> <<"1">>]}

\* what one capacity lookup can come back with: fetch throws, the body does not
\* parse, a non-success answer whose JSON body has no metafields array, or a
\* success answer with a metafields array
LookupOutcomes ==
  {[res |-> r, metafields |-> <<>>] : r \in {"throw", "badjson", "notok"}}
    \cup {[res |-> "ok", metafields |-> m] : m \in SeqsUpTo(MetaInputs, MaxMeta)}

\* the answers drawn on when the notification is delivered more than once
RetryLookupOutcomes ==
  {[res |-> r, metafields |-> <<>>] : r \in {"throw", "notok"}}
    \cup {[res |-> "ok", metafields |-> m] :
            m \in {<<>>,
                   <<[null |-> FALSE, key |-> "truckload_capacity", namespace |-> "custom",
                      value |-> <<"1">>]>>,
                   <<[null |-> FALSE, key |-> "truckload_capacity", namespace |-> "logistics",
                      value |-> <<"2">>]>>}}

CallOutcomes == {"ok", "notok", "throw"}

IsTruckloadMeta(m) ==
  m.key = "truckload_capacity" /\ (m.namespace = "custom" \/ m.namespace = "logistics")

RECURSIVE Find(_)
\* metafields.find(...): the first matching record; reading m.key of a null
\* element throws
Find(metafields) ==
  IF metafields = <<>> THEN [threw |-> FALSE, found |-> FALSE, value |-> <<>>]
  ELSE IF Head(metafields).null THEN [threw |-> TRUE, found |-> FALSE, value |-> <<>>]
  ELSE IF IsTruckloadMeta(Head(metafields))
       THEN [threw |-> FALSE, found |-> TRUE, value |-> Head(metafields).value]
  ELSE Find(Tail(metafields))

\* a plausible slip: parseInt(truckloadMeta?.value ?? "1", 10)
TruckloadCapacityDefaultOne(found) ==
  ParseInt(IF found.found THEN found.value ELSE <<"1">>)

\* parseInt(truckloadMeta?.value ?? "0", 10)
TruckloadCapacity(found) ==
  ParseInt(IF found.found THEN found.value ELSE <<"0">>)

\* ----------------------------------------------------------------- handler
\* one outbound call as the external system sees it, with how it ended
LookupCall(k, productId, res, cap) ==
  [op |-> "lookup", item |-> k, id |-> productId, idx |-> 0, qty |-> 0,
   res |-> res, cap |-> cap, tags |-> <<>>, target |-> "product", fields |-> {},
   parent |-> 0]

\* parent is the order the note and the Parent- tag of the payload name
CreateCall(k, variantId, idx, qty, res, parent) ==
  [op |-> "create", item |-> k, id |-> variantId, idx |-> idx, qty |-> qty,
   res |-> res, cap |-> 0, tags |-> <<>>, target |-> "new order",
   fields |-> {"line_items", "customer", "shipping_address", "billing_address", "email",
               "note", "tags"},
   parent |-> parent]

\* a plausible slip: the update also carries a note, as tagOriginalOrder's does
TagCallWithNote(orderId, newTags, res) ==
  [op |-> "tag", item |-> 0, id |-> orderId, idx |-> 0, qty |-> 0,
   res |-> res, cap |-> 0, tags |-> newTags, target |-> "original order",
   fields |-> {"id", "note", "tags"}, parent |-> 0]

\* the PUT to orders/${order.id}.json
TagCall(orderId, newTags, res) ==
  [op |-> "tag", item |-> 0, id |-> orderId, idx |-> 0, qty |-> 0,
   res |-> res, cap |-> 0, tags |-> newTags, target |-> "original order",
   fields |-> {"id", "tags"}, parent |-> 0]

\* tagOriginalOrder's PUT: the note and the bare sentinel as the tags
TagCallLoads(orderId, res) ==
  [op |-> "tag", item |-> 0, id |-> orderId, idx |-> 0, qty |-> 0,
   res |-> res, cap |-> 0, tags |-> SplitProcessed, target |-> "original order",
   fields |-> {"id", "note", "tags"}, parent |-> 0]

NoMeta == [threw |-> FALSE, found |-> FALSE, value |-> <<>>]

\* the locals of one invocation of the handler; id, tags and line_items are
\* those of its own `order = req.body`, report is what the handler logged about
\* the latest lookup, responses counts the answers sent to the inbound caller
IdleRun ==
  [pc |-> "idle", id |-> 0, tags |-> NoTags, line_items |-> <<>>, item |-> 0, i |-> 0,
   splitQuantities |-> <<>>, truckloadMeta |-> NoMeta, report |-> "", calls |-> <<>>,
   responses |-> 0, status |-> 0, text |-> ""]

NoOther ==
  [present |-> FALSE, tags |-> NoTags, line_items |-> [present |-> FALSE, items |-> <<>>],
   storeTags |-> NoTags]

\* a plausible slip: the body is kept in a module-level variable that the first
\* notification has set
NotifiedShared(d) ==
  [id |-> 1, tags |-> order.tags, line_items |-> order.line_items, storeTags |-> storeTags]

\* the order the notification of delivery d is about: the second delivery is
\* that of the other order when there is one
Notified(d) ==
  IF other.present /\ d = 2
  THEN [id |-> 2, tags |-> other.tags, line_items |-> other.line_items,
        storeTags |-> other.storeTags]
  ELSE [id |-> 1, tags |-> order.tags, line_items |-> order.line_items,
        storeTags |-> storeTags]

\* const order = req.body, with the tags the body carries
Received(d, tags) ==
  [run[d] EXCEPT !.id = Notified(d).id, !.tags = tags,
                 !.line_items = IF Notified(d).line_items.present
                                THEN Notified(d).line_items.items ELSE <<>>]

\* Array.isArray(order.line_items) ? order.line_items : []
LineItems == IF order.line_items.present THEN order.line_items.items ELSE <<>>

\* a plausible slip: the guard compares the whole tag string with the sentinel
AlreadyProcessedExact(tags) ==
  tags.kind # "none" /\ tags.v = <<SplitProcessed>>

\* (order.tags || "").includes("Split-Processed"): a substring test on a string,
\* an element test on a list
AlreadyProcessed(tags) ==
  CASE tags.kind = "none" -> FALSE
    [] tags.kind = "str"  -> StrIncludes(tags.v[1], SplitProcessed)
    [] tags.kind = "list" -> \E n \in 1..Len(tags.v) : tags.v[n] = SplitProcessed

\* !item?.product_id || !item?.variant_id
InvalidItem(item) == item.product_id = 0 \/ item.variant_id = 0

\* a plausible slip: the check for missing identifiers is left out
NextItemNoSkip(lineItems, k) == k

RECURSIVE NextValidItem(_, _)
\* the for-of loop's next line item at or after k that is not skipped as invalid
NextValidItem(lineItems, k) ==
  IF k > Len(lineItems) THEN k
  ELSE IF InvalidItem(lineItems[k]) THEN NextValidItem(lineItems, k + 1)
  ELSE k

\* the locals of a run that goes on to the line item after k, or to the tag
\* update when none is left
Continue(r, k) ==
  LET next == NextValidItem(r.line_items, k + 1)
  IN  [r EXCEPT !.item = next, !.i = 0, !.splitQuantities = <<>>,
                !.pc = IF next > Len(r.line_items) THEN "tag" ELSE "lookup"]

Respond(r, status, text) ==
  [r EXCEPT !.pc = "done", !.status = status, !.text = text, !.responses = @ + 1]

\* a plausible slip: `${order.tags}, Split-Processed` whatever the existing tags
NewTagsAlwaysJoined(tags) ==
  (IF tags.kind = "none" THEN <<>> ELSE tags.v[1]) \o Separator \o SplitProcessed

\* existingTags ? `${existingTags}, Split-Processed` : "Split-Processed"
NewTags(tags) ==
  LET existingTags == Trim(IF tags.kind = "none" THEN <<>> ELSE tags.v[1])
  IN  IF existingTags # <<>> THEN existingTags \o Separator \o SplitProcessed
      ELSE SplitProcessed

NoneRunning == \A o \in Deliveries : run[o].pc \in {"idle", "done"}

\* a plausible change: deliveries of one order wait for each other
DeliverExclusive(d) ==
  /\ run[d].pc = "idle"
  /\ d <= maxDeliveries
  /\ IF d = 1 \/ other.present THEN TRUE ELSE run[d - 1].pc # "idle"
  /\ NoneRunning
  /\ \E tags \in {Notified(d).tags, Notified(d).storeTags} :
       LET r == Received(d, tags)
       IN  run' = [run EXCEPT ![d] =
             IF AlreadyProcessed(tags) THEN Respond(r, 200, "Already processed")
             ELSE IF Len(r.line_items) = 0 THEN Respond(r, 200, "No line items")
             ELSE Continue(r, 0)]
  /\ UNCHANGED <<order, other, handler, maxDeliveries, concurrent, storeTags, part>>

\* a plausible change: the process remembers the orders it has answered
DeliverRemembering(d) ==
  /\ run[d].pc = "idle"
  /\ d <= maxDeliveries
  /\ IF d = 1 \/ other.present THEN TRUE ELSE run[d - 1].pc # "idle"
  /\ IF concurrent THEN TRUE ELSE NoneRunning
  /\ \E tags \in {Notified(d).tags, Notified(d).storeTags} :
       LET r == Received(d, tags)
       IN  run' = [run EXCEPT ![d] =
             IF AlreadyProcessed(tags) \/ \E e \in Deliveries : run[e].text = "Split processed"
             THEN Respond(r, 200, "Already processed")
             ELSE IF Len(r.line_items) = 0 THEN Respond(r, 200, "No line items")
             ELSE Continue(r, 0)]
  /\ UNCHANGED <<order, other, handler, maxDeliveries, concurrent, storeTags, part>>

\* a plausible slip: the line-item check is left out, as in the ceil-loads rewrite
DeliverNoLineItemCheck(d) ==
  /\ run[d].pc = "idle"
  /\ d <= maxDeliveries
  /\ IF d = 1 \/ other.present THEN TRUE ELSE run[d - 1].pc # "idle"
  /\ IF concurrent THEN TRUE ELSE NoneRunning
  /\ \E tags \in {Notified(d).tags, Notified(d).storeTags} :
       LET r == Received(d, tags)
       IN  run' = [run EXCEPT ![d] =
             IF AlreadyProcessed(tags) THEN Respond(r, 200, "Already processed")
             ELSE Continue(r, 0)]
  /\ UNCHANGED <<order, other, handler, maxDeliveries, concurrent, storeTags, part>>

\* a plausible change: line items that are not an array reach the outer catch
DeliverStrict(d) ==
  /\ run[d].pc = "idle"
  /\ d <= maxDeliveries
  /\ IF d = 1 \/ other.present THEN TRUE ELSE run[d - 1].pc # "idle"
  /\ IF concurrent THEN TRUE ELSE NoneRunning
  /\ \E tags \in {Notified(d).tags, Notified(d).storeTags} :
       LET r == Received(d, tags)
       IN  run' = [run EXCEPT ![d] =
             IF AlreadyProcessed(tags) THEN Respond(r, 200, "Already processed")
             ELSE IF ~order.line_items.present THEN Respond(r, 500, "Error")
             ELSE IF handler = "main" /\ Len(r.line_items) = 0
                  THEN Respond(r, 200, "No line items")
             ELSE Continue(r, 0)]
  /\ UNCHANGED <<order, other, handler, maxDeliveries, concurrent, storeTags, part>>

\* the synchronous head of the handler: the guard, the line-item check and the
\* skipping of invalid items up to the first lookup.  The body carries either the
\* tags of the notification as first sent or the tags the order has by now.
\* The ceil-loads rewrite has no line-item check: `order.line_items || []`.
Deliver(d) ==
  /\ run[d].pc = "idle"
  /\ d <= maxDeliveries
  /\ IF d = 1 \/ other.present THEN TRUE ELSE run[d - 1].pc # "idle"
  /\ IF concurrent THEN TRUE ELSE NoneRunning
  /\ \E tags \in {Notified(d).tags, Notified(d).storeTags} :
       LET r == Received(d, tags)
       IN  run' = [run EXCEPT ![d] =
             IF AlreadyProcessed(tags) THEN Respond(r, 200, "Already processed")
             ELSE IF handler = "main" /\ Len(r.line_items) = 0
                  THEN Respond(r, 200, "No line items")
             ELSE Continue(r, 0)]
  /\ UNCHANGED <<order, other, handler, maxDeliveries, concurrent, storeTags, part>>

\* a plausible slip: a failed lookup reaches the outer catch
AfterLookupAbortOnFailure(r, out) ==
  LET k        == r.item
      item     == r.line_items[k]
      found    == Find(out.metafields)
      capacity == TruckloadCapacity(found)
      logged(res, cap) ==
        [r EXCEPT !.calls = Append(@, LookupCall(k, item.product_id, res, cap)),
                  !.truckloadMeta = IF out.res \in {"throw", "badjson"} THEN NoMeta ELSE found,
                  !.report = IF res \in {"throw", "badjson", "notok", "typeerror"} THEN "error"
                             ELSE IF cap = 0 THEN "no capacity" ELSE "capacity"]
  IN  IF out.res \in {"throw", "badjson", "notok"} THEN Respond(logged(out.res, 0), 500, "Error")
      ELSE IF found.threw THEN Respond(logged("typeerror", 0), 500, "Error")
      ELSE IF ~capacity.finite \/ capacity.n <= 0 THEN Continue(logged(out.res, 0), k)
      ELSE IF item.quantity <= capacity.n THEN Continue(logged(out.res, capacity.n), k)
      ELSE [logged(out.res, capacity.n) EXCEPT
              !.pc = "create", !.i = 0,
              !.splitQuantities = SplitQuantities(item.quantity, capacity.n)]

\* the lookup of the current item's capacity and all that follows it up to the
\* next outbound call
AfterLookup(r, out) ==
  LET k        == r.item
      item     == r.line_items[k]
      found    == Find(out.metafields)
      capacity == TruckloadCapacity(found)
      logged(res, cap) ==
        [r EXCEPT !.calls = Append(@, LookupCall(k, item.product_id, res, cap)),
                  !.truckloadMeta = IF out.res \in {"throw", "badjson"} THEN NoMeta ELSE found,
                  !.report = IF res \in {"throw", "badjson", "typeerror"} THEN "error"
                             ELSE IF cap = 0 THEN "no capacity" ELSE "capacity"]
  IN  IF out.res \in {"throw", "badjson"} THEN Continue(logged(out.res, 0), k)
      ELSE IF found.threw THEN Respond(logged("typeerror", 0), 500, "Error")
      ELSE IF ~capacity.finite \/ capacity.n <= 0 THEN Continue(logged(out.res, 0), k)
      ELSE IF item.quantity <= capacity.n THEN Continue(logged(out.res, capacity.n), k)
      ELSE [logged(out.res, capacity.n) EXCEPT
              !.pc = "create", !.i = 0,
              !.splitQuantities = SplitQuantities(item.quantity, capacity.n)]

\* a plausible slip: the last load is the remainder even when that is 0
LoadQuantitiesNoFallback(quantity, capacity) ==
  LET loads     == (quantity + capacity - 1) \div capacity
      remainder == quantity % capacity
  IN  [i \in 1..loads |-> IF i < loads THEN capacity ELSE remainder]

\* Math.ceil(quantity / capacity) loads: the capacity for every load but the
\* last, which takes the remainder or, when that is 0, the capacity
LoadQuantities(quantity, capacity) ==
  LET loads     == (quantity + capacity - 1) \div capacity
      remainder == quantity % capacity
  IN  [i \in 1..loads |->
         IF i < loads THEN capacity ELSE IF remainder # 0 THEN remainder ELSE capacity]

\* the ceil-loads rewrite: getProductMetafields throws on a fetch error, a
\* non-success answer or an unparsable body, and nothing catches it before the
\* outer catch; an item is skipped only for want of a usable capacity
AfterLookupLoads(r, out) ==
  LET k        == r.item
      item     == r.line_items[k]
      found    == Find(out.metafields)
      capacity == ParseInt(found.value)
      logged(res, cap) ==
        [r EXCEPT !.calls = Append(@, LookupCall(k, item.product_id, res, cap)),
                  !.truckloadMeta = IF out.res = "ok" THEN found ELSE NoMeta,
                  !.report = IF res # "ok" THEN "error"
                             ELSE IF cap = 0 THEN "no capacity" ELSE "capacity"]
  IN  IF out.res # "ok" THEN Respond(logged(out.res, 0), 500, "Error")
      ELSE IF found.threw THEN Respond(logged("typeerror", 0), 500, "Error")
      ELSE IF ~found.found THEN Continue(logged(out.res, 0), k)
      ELSE IF ~capacity.finite \/ capacity.n <= 0 THEN Continue(logged(out.res, 0), k)
      ELSE [logged(out.res, capacity.n) EXCEPT
              !.pc = "create", !.i = 0,
              !.splitQuantities = LoadQuantities(item.quantity, capacity.n)]

Lookup(d) ==
  /\ run[d].pc = "lookup"
  /\ \E out \in (IF maxDeliveries > 1 THEN RetryLookupOutcomes ELSE LookupOutcomes) :
       run' = [run EXCEPT ![d] = IF handler = "main" THEN AfterLookup(run[d], out)
                                 ELSE AfterLookupLoads(run[d], out)]
  /\ UNCHANGED <<order, other, handler, maxDeliveries, concurrent, storeTags, part>>

\* a plausible slip: the shipment index is the loop index, `Truckload ${i}`
AfterCreateZeroBased(r, res) ==
  LET k      == r.item
      qty    == r.splitQuantities[r.i + 1]
      logged == [r EXCEPT !.calls =
                   Append(@, CreateCall(k, r.line_items[k].variant_id, r.i, qty, res, r.id)),
                 !.i = r.i + 1]
  IN  IF r.i + 1 < Len(r.splitQuantities) THEN logged ELSE Continue(logged, k)

\* a plausible slip: a failed creation call ends the line item's loop
AfterCreateBreakOnFailure(r, res) ==
  LET k      == r.item
      qty    == r.splitQuantities[r.i + 1]
      logged == [r EXCEPT !.calls =
                   Append(@, CreateCall(k, r.line_items[k].variant_id, r.i + 1, qty, res, r.id)),
                 !.i = r.i + 1]
  IN  IF res = "ok" /\ r.i + 1 < Len(r.splitQuantities) THEN logged ELSE Continue(logged, k)

\* one pass of the creation loop: the call for splitQuantities[i], then i++;
\* a failed call is logged and the loop continues
AfterCreate(r, res) ==
  LET k      == r.item
      qty    == r.splitQuantities[r.i + 1]
      logged == [r EXCEPT !.calls =
                   Append(@, CreateCall(k, r.line_items[k].variant_id, r.i + 1, qty, res, r.id)),
                 !.i = r.i + 1]
  IN  IF r.i + 1 < Len(r.splitQuantities) THEN logged ELSE Continue(logged, k)

\* the ceil-loads rewrite: createSplitOrder throws on any failure
AfterCreateLoads(r, res) ==
  LET k      == r.item
      qty    == r.splitQuantities[r.i + 1]
      logged == [r EXCEPT !.calls =
                   Append(@, CreateCall(k, r.line_items[k].variant_id, r.i + 1, qty, res, r.id)),
                 !.i = r.i + 1]
  IN  IF res # "ok" THEN Respond(logged, 500, "Error")
      ELSE IF r.i + 1 < Len(r.splitQuantities) THEN logged
      ELSE Continue(logged, k)

Create(d) ==
  /\ run[d].pc = "create"
  /\ \E res \in CallOutcomes :
       run' = [run EXCEPT ![d] = IF handler = "main" THEN AfterCreate(run[d], res)
                                 ELSE AfterCreateLoads(run[d], res)]
  /\ UNCHANGED <<order, other, handler, maxDeliveries, concurrent, storeTags, part>>

\* a plausible slip: the catch of the tag update answers 500 and does not
\* return, so that the success answer is sent as well
AfterTagAnswersTwice(r, res) ==
  IF r.tags.kind = "list"
  THEN Respond(Respond(r, 500, "Error"), 200, "Split processed")
  ELSE LET logged == [r EXCEPT !.calls = Append(@, TagCall(r.id, NewTags(r.tags), res))]
       IN  IF res = "throw" THEN Respond(Respond(logged, 500, "Error"), 200, "Split processed")
           ELSE Respond(logged, 200, "Split processed")

\* a plausible slip: a failed tag update reaches the outer catch
AfterTagFailureSurfaced(r, res) ==
  IF r.tags.kind = "list" THEN Respond(r, 200, "Split processed")
  ELSE LET logged == [r EXCEPT !.calls = Append(@, TagCall(r.id, NewTags(r.tags), res))]
       IN  IF res = "ok" THEN Respond(logged, 200, "Split processed")
           ELSE Respond(logged, 500, "Error")

\* the tag update and the response; trim() of a list throws before any call is
\* made, and every failure is logged and answered with the same success
AfterTag(r, res) ==
  IF r.tags.kind = "list" THEN Respond(r, 200, "Split processed")
  ELSE Respond([r EXCEPT !.calls = Append(@, TagCall(r.id, NewTags(r.tags), res))],
               200, "Split processed")

\* the ceil-loads rewrite: tagOriginalOrder throws on any failure
AfterTagLoads(r, res) ==
  LET logged == [r EXCEPT !.calls = Append(@, TagCallLoads(r.id, res))]
  IN  IF res = "ok" THEN Respond(logged, 200, "Split processed")
      ELSE Respond(logged, 500, "Error")

Tag(d) ==
  /\ run[d].pc = "tag"
  /\ \E res \in CallOutcomes :
       /\ run' = [run EXCEPT ![d] = IF handler = "main" THEN AfterTag(run[d], res)
                                    ELSE AfterTagLoads(run[d], res)]
       /\ LET written == IF res # "ok" THEN Notified(d).storeTags
                          ELSE IF handler # "main" THEN StrTags(SplitProcessed)
                          ELSE IF run[d].tags.kind # "list"
                               THEN StrTags(NewTags(run[d].tags))
                          ELSE Notified(d).storeTags
          IN  IF run[d].id = 2
              THEN other' = [other EXCEPT !.storeTags = written] /\ UNCHANGED storeTags
              ELSE storeTags' = written /\ UNCHANGED other
  /\ UNCHANGED <<order, handler, maxDeliveries, concurrent, part>>

\* ---------------------------------------------------------- external store
AddedTag == <<"b">>

\* another actor adds a tag to the original order in the external system, which
\* keeps an order's tags as one comma-joined string
StoreTagAdded ==
  /\ storeTags.kind # "list"
  /\ LET current == IF storeTags.kind = "none" THEN <<>> ELSE storeTags.v[1]
     IN  /\ ~StrIncludes(current, AddedTag)
         /\ storeTags' = StrTags(IF current = <<>> THEN AddedTag
                                 ELSE current \o Separator \o AddedTag)
  /\ UNCHANGED <<order, other, handler, maxDeliveries, concurrent, run, part>>

\* ------------------------------------------------------------- partitioner
NotSearched == [searched |-> FALSE, threw |-> FALSE, found |-> FALSE, value |-> <<>>]

Searched(f) == [searched |-> TRUE, threw |-> f.threw, found |-> f.found, value |-> f.value]

\* the inputs and results of the computations that are checked on their own:
\* the partitions, the choice of the capacity record, and the greedy loop of
\* the handler that reads the capacity without checking it
NoPart ==
  [q |-> 0, c |-> 0, done |-> FALSE, result |-> <<>>,
   remaining |-> 0, greedy |-> <<>>, loadsDone |-> FALSE, loads |-> <<>>,
   metafields |-> <<>>, truckloadMeta |-> NotSearched, capacityMf |-> NotSearched,
   loop |-> "idle", truckloadCapacity |-> NotANumber, remainingNaN |-> FALSE,
   splitQuantities |-> <<>>]

ComputeSplit ==
  /\ part.q > 0
  /\ ~part.done
  /\ part' = [part EXCEPT !.done = TRUE, !.result = SplitQuantities(part.q, part.c)]
  /\ UNCHANGED <<order, other, handler, maxDeliveries, concurrent, run, storeTags>>

Min(a, b) == IF a < b THEN a ELSE b

\* one pass of the greedy loop: while (remaining > 0) push min(capacity,
\* remaining) and subtract it
GreedyStep ==
  /\ part.q > 0
  /\ part.remaining > 0
  /\ LET split == Min(part.c, part.remaining)
     IN  part' = [part EXCEPT !.greedy = Append(@, split), !.remaining = @ - split]
  /\ UNCHANGED <<order, other, handler, maxDeliveries, concurrent, run, storeTags>>

\* the quantities of the ceil-loads loop, i = 1..loads
ComputeLoads ==
  /\ part.q > 0
  /\ ~part.loadsDone
  /\ part' = [part EXCEPT !.loadsDone = TRUE, !.loads = LoadQuantities(part.q, part.c)]
  /\ UNCHANGED <<order, other, handler, maxDeliveries, concurrent, run, storeTags>>

RECURSIVE FindNamespace(_, _)
\* metafields.find(mf => mf.key === "truckload_capacity" && mf.namespace === ns)
FindNamespace(metafields, ns) ==
  IF metafields = <<>> THEN [threw |-> FALSE, found |-> FALSE, value |-> <<>>]
  ELSE IF Head(metafields).null THEN [threw |-> TRUE, found |-> FALSE, value |-> <<>>]
  ELSE IF Head(metafields).key = "truckload_capacity" /\ Head(metafields).namespace = ns
       THEN [threw |-> FALSE, found |-> TRUE, value |-> Head(metafields).value]
  ELSE FindNamespace(Tail(metafields), ns)

\* metafields.find(... "logistics") || metafields.find(... "custom")
CapacityMf(metafields) ==
  LET logistics == FindNamespace(metafields, "logistics")
  IN  IF logistics.threw \/ logistics.found THEN logistics
      ELSE FindNamespace(metafields, "custom")

\* the record the handler of src/server.js lines 25-198 takes the capacity from
FindTruckloadMeta ==
  /\ part.q = 0
  /\ ~part.truckloadMeta.searched
  /\ part' = [part EXCEPT !.truckloadMeta = Searched(Find(part.metafields))]
  /\ UNCHANGED <<order, other, handler, maxDeliveries, concurrent, run, storeTags>>

\* the record the first-line-item handler with helpers takes the capacity from
FindCapacityMf ==
  /\ part.q = 0
  /\ ~part.capacityMf.searched
  /\ part' = [part EXCEPT !.capacityMf = Searched(CapacityMf(part.metafields))]
  /\ UNCHANGED <<order, other, handler, maxDeliveries, concurrent, run, storeTags>>

\* the earliest handler: data.metafields.find(custom only), then
\* parseInt(truckloadMeta?.value || "0", 10) and `let remaining =
\* lineItem.quantity`, with no check of the capacity before the loop
ReadTruckloadCapacity ==
  /\ part.q > 0
  /\ part.loop = "idle"
  /\ LET truckloadMeta == FindNamespace(part.metafields, "custom")
         value == IF truckloadMeta.found /\ truckloadMeta.value # <<>>
                  THEN truckloadMeta.value ELSE <<"0">>
     IN  part' = IF truckloadMeta.threw THEN [part EXCEPT !.loop = "error"]
                 ELSE [part EXCEPT !.loop = "running", !.truckloadCapacity = ParseInt(value),
                                   !.remaining = part.q]
  /\ UNCHANGED <<order, other, handler, maxDeliveries, concurrent, run, storeTags>>

\* one pass of that handler's loop, as JavaScript computes it:
\* Math.min(NaN, x) is NaN, x - NaN is NaN, and NaN > 0 is false
GreedyPass ==
  /\ part.loop = "running"
  /\ ~part.remainingNaN
  /\ part.remaining > 0
  /\ Len(part.splitQuantities) < MaxPasses
  /\ LET split == IF part.truckloadCapacity.finite
                  THEN [finite |-> TRUE, n |-> Min(part.truckloadCapacity.n, part.remaining)]
                  ELSE NotANumber
     IN  part' = [part EXCEPT !.splitQuantities = Append(@, split),
                              !.remaining = IF split.finite THEN @ - split.n ELSE @,
                              !.remainingNaN = ~split.finite]
  /\ UNCHANGED <<order, other, handler, maxDeliveries, concurrent, run, storeTags>>

\* ---------------------------------------------------------- specifications
OrderInputs ==
  {[tags |-> t, line_items |-> li] : t \in BasicTags, li \in LineItemInputs}
    \cup {[tags |-> t, line_items |-> li] : t \in TagInputs, li \in BasicLineItems}

RetryOrderInputs ==
  {[tags |-> t, line_items |-> li] : t \in RetryTags, li \in RetryLineItems}

InitOf(h, orders, deliveries, conc) ==
  /\ order \in orders
  /\ other = NoOther
  /\ handler = h
  /\ maxDeliveries = deliveries
  /\ concurrent = conc
  /\ run = [d \in Deliveries |-> IdleRun]
  /\ storeTags = order.tags
  /\ part = NoPart

InitWith(orders, deliveries, conc) == InitOf("main", orders, deliveries, conc)

\* one delivery of one notification
Init == InitWith(OrderInputs, 1, FALSE)

Next == \E d \in Deliveries : Deliver(d) \/ Lookup(d) \/ Create(d) \/ Tag(d)

Spec == Init /\ [][Next]_vars

\* every awaited call of a run that has been accepted is settled in the end
Fairness == \A d \in Deliveries : WF_vars(Lookup(d) \/ Create(d) \/ Tag(d))

SpecFair == Init /\ [][Next]_vars /\ Fairness

\* the notification delivered again after the earlier delivery was answered
InitRetry == InitWith(RetryOrderInputs, MaxDeliveries, FALSE)

SpecRetry == InitRetry /\ [][Next]_vars

\* deliveries of the same notification handled concurrently
InitConcurrent == InitWith(RetryOrderInputs, MaxDeliveries, TRUE)

SpecConcurrent == InitConcurrent /\ [][Next]_vars

\* one delivery of one notification to the ceil-loads rewrite of the handler
InitLoads == InitOf("loads", OrderInputs, 1, FALSE)

SpecLoads == InitLoads /\ [][Next]_vars

\* the partitioner alone, over every quantity and capacity within the bounds
InitPart ==
  /\ order = [tags |-> NoTags, line_items |-> [present |-> FALSE, items |-> <<>>]]
  /\ other = NoOther
  /\ handler = "main"
  /\ maxDeliveries = 0
  /\ concurrent = FALSE
  /\ run = [d \in Deliveries |-> IdleRun]
  /\ storeTags = NoTags
  /\ \E q \in 1..MaxPartQty, c \in 1..MaxPartCap :
       part = [NoPart EXCEPT !.q = q, !.c = c, !.remaining = q]

NextPart == ComputeSplit \/ GreedyStep \/ ComputeLoads

SpecPart == InitPart /\ [][NextPart]_vars

\* a second order with identifiers of its own
OtherOrderInputs ==
  {[present |-> TRUE, tags |-> NoTags, storeTags |-> NoTags,
    line_items |-> [present |-> TRUE,
                    items |-> <<[product_id |-> 2, variant_id |-> 2, quantity |-> 3]>>]],
   [present |-> TRUE, tags |-> StrTags(<<"a">>), storeTags |-> StrTags(<<"a">>),
    line_items |-> [present |-> TRUE,
                    items |-> <<[product_id |-> 2, variant_id |-> 2, quantity |-> 2],
                                [product_id |-> 2, variant_id |-> 2, quantity |-> 1]>>]]}

\* one delivery, with another actor at work on the order in the external system
InitStore == InitWith(RetryOrderInputs, 1, FALSE)

NextStore == Next \/ StoreTagAdded

SpecStore == InitStore /\ [][NextStore]_vars

FirstOrderInputs ==
  {o \in RetryOrderInputs :
     /\ o.line_items.present
     /\ \A n \in 1..Len(o.line_items.items) :
          o.line_items.items[n].quantity =
            IF o.line_items.items[n].product_id = 0 THEN 1
            ELSE IF Len(o.line_items.items) = 1 THEN 3 ELSE 3 - n}

\* the notifications of two different orders, one delivery each, handled
\* concurrently
InitTwoOrders ==
  /\ order \in FirstOrderInputs
  /\ other \in OtherOrderInputs
  /\ handler = "main"
  /\ maxDeliveries = 2
  /\ concurrent = TRUE
  /\ run = [d \in Deliveries |-> IdleRun]
  /\ storeTags = order.tags
  /\ part = NoPart

SpecTwoOrders == InitTwoOrders /\ [][Next]_vars

\* the choice of the capacity record alone, over every answer within the bounds
InitFind ==
  /\ order = [tags |-> NoTags, line_items |-> [present |-> FALSE, items |-> <<>>]]
  /\ other = NoOther
  /\ handler = "main"
  /\ maxDeliveries = 0
  /\ concurrent = FALSE
  /\ run = [d \in Deliveries |-> IdleRun]
  /\ storeTags = NoTags
  /\ \E m \in SeqsUpTo(MetaInputs, MaxMeta) : part = [NoPart EXCEPT !.metafields = m]

NextFind == FindTruckloadMeta \/ FindCapacityMf

SpecFind == InitFind /\ [][NextFind]_vars

\* the earliest handler's capacity and loop, over every answer and quantity
InitGreedy ==
  /\ order = [tags |-> NoTags, line_items |-> [present |-> FALSE, items |-> <<>>]]
  /\ other = NoOther
  /\ handler = "main"
  /\ maxDeliveries = 0
  /\ concurrent = FALSE
  /\ run = [d \in Deliveries |-> IdleRun]
  /\ storeTags = NoTags
  /\ \E q \in 1..MaxPartQty, m \in SeqsUpTo(MetaInputs, MaxMeta) :
       part = [NoPart EXCEPT !.q = q, !.metafields = m]

NextGreedy == ReadTruckloadCapacity \/ GreedyPass

SpecGreedy == InitGreedy /\ [][NextGreedy]_vars

\* ------------------------------------------------------------ observations
PartitionLength(q, c) == IF q <= c THEN 1 ELSE (q + c - 1) \div c

CallsOf(d, op) == SelectSeq(run[d].calls, LAMBDA c : c.op = op)

CreateCallsOf(d, k) == SelectSeq(run[d].calls, LAMBDA c : c.op = "create" /\ c.item = k)

\* the creation loop of line item k of delivery d is over
LoopFinished(d, k) == run[d].pc \in {"tag", "done"} \/ run[d].item > k

\* a lookup whose answer makes the handler split the line item
IsSplitLookup(c) ==
  c.op = "lookup" /\ c.cap > 0 /\ LineItems[c.item].quantity > c.cap

\* the tags carry the sentinel text: somewhere in the string, or as a list element
HasSentinel(tags) ==
  CASE tags.kind = "none" -> FALSE
    [] tags.kind = "str"  -> Occurrences(tags.v[1], SplitProcessed) > 0
    [] tags.kind = "list" -> SplitProcessed \in {tags.v[n] : n \in 1..Len(tags.v)}

EndsWith(s, t) == Len(s) >= Len(t) /\ SubSeq(s, Len(s) - Len(t) + 1, Len(s)) = t

\* ------------------------------------------------------------------ claims

\* C1: for every quantity q > 0 and capacity c > 0 the computed partition sums
\* to q, every entry lies in (0, c], and its length is 1 when q <= c and
\* ceil(q/c) otherwise.
C1_PartitionContract ==
  part.done =>
    /\ SeqSum(part.result) = part.q
    /\ \A n \in 1..Len(part.result) : part.result[n] > 0 /\ part.result[n] <= part.c
    /\ Len(part.result) = PartitionLength(part.q, part.c)

C1_Witness ==
  part.done /\ part.q > part.c /\ part.q % part.c # 0 /\ Len(part.result) >= 3

\* C2: a delivery whose order already carries Split-Processed makes no outbound
\* call of any kind and is answered with success.
C2_TaggedOrderNoCalls ==
  \A d \in Deliveries :
    run[d].pc # "idle" /\ HasSentinel(run[d].tags) =>
      /\ run[d].pc = "done"
      /\ run[d].status = 200
      /\ run[d].calls = <<>>

C2_Witness ==
  /\ run[1].pc = "done"
  /\ run[1].tags.kind = "str"
  /\ Len(run[1].tags.v[1]) > Len(SplitProcessed)
  /\ HasSentinel(run[1].tags)
  /\ \E k \in 1..Len(LineItems) : ~InvalidItem(LineItems[k])

\* C4: a failed creation call does not stop the loop: once the loop of a split
\* line item is over, its creation calls are those of shipment 1, 2, ..., n, one
\* each, n being the partition length, whatever their outcomes; and the next
\* line item has been looked up once the handler is past it.
C4_AllEntriesAttempted ==
  \A d \in Deliveries : \A n \in 1..Len(run[d].calls) :
    LET c    == run[d].calls[n]
        k    == c.item
        made == CreateCallsOf(d, k)
        next == NextValidItem(LineItems, k + 1)
    IN  IsSplitLookup(c) /\ LoopFinished(d, k) =>
          /\ Len(made) = PartitionLength(LineItems[k].quantity, c.cap)
          /\ \A m \in 1..Len(made) : made[m].idx = m
          /\ next <= Len(LineItems) /\ LoopFinished(d, next) =>
               \E m \in (n + 1)..Len(run[d].calls) :
                 run[d].calls[m].op = "lookup" /\ run[d].calls[m].item = next

C4_Witness ==
  /\ run[1].pc = "done"
  /\ \E n \in 1..Len(run[1].calls) :
       /\ n + 3 <= Len(run[1].calls)
       /\ run[1].calls[n].op = "create" /\ run[1].calls[n].idx = 1
       /\ run[1].calls[n].res = "throw"
       /\ run[1].calls[n + 1].op = "create" /\ run[1].calls[n + 1].idx = 2
       /\ run[1].calls[n + 1].res = "notok"
       /\ run[1].calls[n + 2].op = "lookup" /\ run[1].calls[n + 2].item = 2
       /\ run[1].calls[n + 3].op = "create"

\* C5: a tag update that succeeds writes the order's existing tags (without
\* surrounding blanks) followed by ", Split-Processed", or Split-Processed alone
\* when there were none: the written string holds the sentinel once, at its end.
C5_SentinelAppendedOnce ==
  \A d \in Deliveries : \A n \in 1..Len(run[d].calls) :
    LET c        == run[d].calls[n]
        existing == Trim(IF run[d].tags.kind = "str" THEN run[d].tags.v[1] ELSE <<>>)
    IN  c.op = "tag" /\ c.res = "ok" =>
          /\ Occurrences(c.tags, SplitProcessed) = 1
          /\ EndsWith(c.tags, SplitProcessed)
          /\ IF existing = <<>> THEN c.tags = SplitProcessed
             ELSE /\ SubSeq(c.tags, 1, Len(existing)) = existing
                  /\ Len(c.tags) = Len(existing) + Len(Separator) + Len(SplitProcessed)
                  /\ SubSeq(c.tags, Len(existing) + 1, Len(existing) + Len(Separator)) = Separator
          /\ storeTags = StrTags(c.tags)

C5_Witness ==
  /\ run[1].pc = "done"
  /\ run[1].tags.kind = "str"
  /\ StrIncludes(run[1].tags.v[1], <<"S">>)
  /\ \E n \in 1..Len(run[1].calls) : run[1].calls[n].op = "tag" /\ run[1].calls[n].res = "ok"

\* C9: whether the tag update succeeds or fails, the handler answers the inbound
\* caller with success.
C9_TagFailureStillSuccess ==
  \A d \in Deliveries : \A n \in 1..Len(run[d].calls) :
    run[d].calls[n].op = "tag" =>
      /\ run[d].pc = "done"
      /\ run[d].status = 200
      /\ run[d].text = "Split processed"
      /\ n = Len(run[d].calls)

C9_Witness ==
  /\ run[1].pc = "done"
  /\ run[1].status = 200
  /\ \E n \in 1..Len(run[1].calls) :
       run[1].calls[n].op = "tag" /\ run[1].calls[n].res = "throw"
  /\ storeTags = order.tags

\* the child orders the external system holds for line item k: one per creation
\* call that succeeded, over all deliveries
RECURSIVE ChildrenUpTo(_, _)
ChildrenUpTo(d, k) ==
  IF d = 0 THEN 0
  ELSE Len(SelectSeq(CreateCallsOf(d, k), LAMBDA c : c.res = "ok")) + ChildrenUpTo(d - 1, k)

Children(k) == ChildrenUpTo(MaxDeliveries, k)

RECURSIVE TagCallsUpTo(_)
TagCallsUpTo(d) == IF d = 0 THEN 0 ELSE Len(CallsOf(d, "tag")) + TagCallsUpTo(d - 1)

LastCall(d) == run[d].calls[Len(run[d].calls)]

\* delivery d ended in Done: its tag update succeeded
TagSucceeded(d) ==
  run[d].pc = "done" /\ run[d].calls # <<>> /\ LastCall(d).op = "tag" /\ LastCall(d).res = "ok"

\* delivery d ended in PartiallyDone: its tag update was issued and failed
TagFailed(d) ==
  run[d].pc = "done" /\ run[d].calls # <<>> /\ LastCall(d).op = "tag" /\ LastCall(d).res # "ok"

LookupFailed(c) == c.op = "lookup" /\ c.res \in {"throw", "badjson", "notok"}

\* C3: once a delivery has ended with the tag update succeeding, a later
\* delivery of the same notification creates no further child order and issues
\* no further tag update.
C3_NoWorkAfterDone ==
  [][(\E d \in Deliveries : TagSucceeded(d)) =>
       /\ \A k \in 1..Len(LineItems) : Children(k)' = Children(k)
       /\ TagCallsUpTo(MaxDeliveries)' = TagCallsUpTo(MaxDeliveries)]_vars

\* C6: every run that passes the guard with at least one line item and is
\* answered "Split processed" has issued exactly one tag update, as its last
\* outbound call.
C6_ExactlyOneTagUpdate ==
  \A d \in Deliveries :
    run[d].pc = "done" /\ run[d].text = "Split processed" =>
      /\ Len(CallsOf(d, "tag")) = 1
      /\ LastCall(d).op = "tag"

\* C7: nothing keeps a second delivery of the same order out while a first is
\* under way: it is accepted, passes the guard on the same untagged body, and
\* makes every creation call of its own, so that a line item can have more child
\* orders than its partition has entries.
C7_NoMutualExclusion ==
  \A d \in Deliveries :
    /\ (/\ run[d].pc = "idle"
        /\ d <= maxDeliveries
        /\ IF d = 1 \/ other.present THEN TRUE ELSE run[d - 1].pc # "idle") => ENABLED Deliver(d)
    /\ run[d].pc # "idle" /\ ~HasSentinel(run[d].tags) /\ Len(LineItems) > 0 =>
         run[d].text # "Already processed"
    /\ \A n \in 1..Len(run[d].calls) :
         LET c == run[d].calls[n]
         IN  IsSplitLookup(c) /\ LoopFinished(d, c.item) =>
               Len(CreateCallsOf(d, c.item)) = PartitionLength(LineItems[c.item].quantity, c.cap)

C7_Witness ==
  /\ run[1].pc = "tag" /\ run[2].pc = "tag"
  /\ run[1].tags = run[2].tags
  /\ storeTags = order.tags
  /\ \E n \in 1..Len(run[1].calls) :
       LET c == run[1].calls[n]
       IN  /\ IsSplitLookup(c)
           /\ Children(c.item) > PartitionLength(LineItems[c.item].quantity, c.cap)

\* C8 as stated: a capacity lookup that fails aborts the whole request, with no
\* further lookup, creation or tag update and a server-error response.
C8_LookupFailureAborts ==
  \A d \in Deliveries : \A n \in 1..Len(run[d].calls) :
    LookupFailed(run[d].calls[n]) =>
      /\ n = Len(run[d].calls)
      /\ run[d].pc = "done"
      /\ run[d].status = 500

\* C8 as amended: a capacity lookup that fails only skips its line item: no
\* child order is created for that item, the call that follows is the lookup of
\* the next valid line item or, when none is left, the tag update, and the
\* failure never ends the run with a server-error response.
C8_LookupFailureSkipsItem ==
  \A d \in Deliveries : \A n \in 1..Len(run[d].calls) :
    LET c    == run[d].calls[n]
        next == NextValidItem(LineItems, c.item + 1)
    IN  LookupFailed(c) =>
          /\ CreateCallsOf(d, c.item) = <<>>
          /\ LoopFinished(d, c.item)
          /\ n = Len(run[d].calls) =>
               /\ run[d].status # 500
               /\ run[d].pc = IF run[d].status = 200 THEN "done"
                              ELSE IF next <= Len(LineItems) THEN "lookup" ELSE "tag"
               /\ run[d].pc = "done" => run[d].tags.kind = "list" /\ next > Len(LineItems)
          /\ n < Len(run[d].calls) =>
               IF next <= Len(LineItems)
               THEN run[d].calls[n + 1].op = "lookup" /\ run[d].calls[n + 1].item = next
               ELSE run[d].calls[n + 1].op = "tag"

C8_Witness ==
  /\ run[1].pc = "done"
  /\ run[1].status = 200
  /\ Len(run[1].calls) >= 4
  /\ run[1].calls[1].op = "lookup" /\ run[1].calls[1].res = "throw"
  /\ run[1].calls[2].op = "lookup" /\ run[1].calls[2].item = 2
  /\ run[1].calls[3].op = "create" /\ run[1].calls[3].res = "ok"
  /\ LastCall(1).op = "tag"

\* C10: when the tag update of a delivery fails the order stays untagged, and the
\* next delivery of the notification passes the guard and does everything again:
\* it looks up every valid line item and, for each item it splits, issues every
\* creation call of the partition.
C10_FullReprocessAfterTagFailure ==
  \A d \in Deliveries :
    (d + 1 \in Deliveries /\ TagFailed(d) /\ \A e \in 1..d : ~TagSucceeded(e)) =>
      /\ run[d + 1].pc = "idle" => storeTags = order.tags /\ ~HasSentinel(storeTags)
      /\ run[d + 1].pc # "idle" =>
           /\ run[d + 1].tags = run[d].tags
           /\ run[d + 1].text # "Already processed"
      /\ run[d + 1].pc \in {"tag", "done"} =>
           /\ Len(CallsOf(d + 1, "lookup")) = Len(CallsOf(d, "lookup"))
           /\ \A n \in 1..Len(CallsOf(d, "lookup")) :
                /\ CallsOf(d + 1, "lookup")[n].item = CallsOf(d, "lookup")[n].item
                /\ ~InvalidItem(LineItems[CallsOf(d, "lookup")[n].item])
           /\ Len(CallsOf(d, "lookup")) =
                Cardinality({k \in 1..Len(LineItems) : ~InvalidItem(LineItems[k])})
           /\ \A n \in 1..Len(run[d + 1].calls) :
                LET c    == run[d + 1].calls[n]
                    made == CreateCallsOf(d + 1, c.item)
                IN  IsSplitLookup(c) =>
                      /\ Len(made) = PartitionLength(LineItems[c.item].quantity, c.cap)
                      /\ \A m \in 1..Len(made) : made[m].idx = m
                      /\ SeqSum([m \in 1..Len(made) |-> made[m].qty]) = LineItems[c.item].quantity

C10_Witness ==
  /\ TagFailed(1)
  /\ run[2].pc = "done"
  /\ storeTags = order.tags
  /\ \E n \in 1..Len(run[1].calls) :
       LET c == run[1].calls[n]
       IN  /\ IsSplitLookup(c)
           /\ Children(c.item) = 2 * PartitionLength(LineItems[c.item].quantity, c.cap)
           /\ Len(CreateCallsOf(2, c.item)) = Len(CreateCallsOf(1, c.item))

\* the tags of a comma-joined tag string, each without surrounding blanks
RECURSIVE TagsOfFrom(_, _)
TagsOfFrom(s, current) ==
  IF s = <<>> THEN {Trim(current)}
  ELSE IF Head(s) = "," THEN {Trim(current)} \cup TagsOfFrom(Tail(s), <<>>)
  ELSE TagsOfFrom(Tail(s), Append(current, Head(s)))

TagsOf(s) == TagsOfFrom(s, <<>>)

ValidItems == {k \in 1..Len(LineItems) : LineItems[k].product_id # 0 /\ LineItems[k].variant_id # 0}

\* the capacity lookup of line item k in delivery d's calls
LookupOf(d, k) ==
  CHOOSE c \in {run[d].calls[n] : n \in 1..Len(run[d].calls)} : c.op = "lookup" /\ c.item = k

\* C11: an order whose line-item sequence is empty gets no outbound call (no
\* lookup, no creation, no tag update) and a success response.
C11_EmptyLineItemsNoCalls ==
  \A d \in Deliveries :
    (/\ run[d].pc # "idle"
     /\ order.line_items.present
     /\ Len(order.line_items.items) = 0) =>
      /\ run[d].pc = "done"
      /\ run[d].status = 200
      /\ run[d].calls = <<>>

C11_Witness ==
  /\ run[1].pc = "done"
  /\ run[1].text = "No line items"
  /\ order.line_items.present
  /\ order.tags = StrTags(<<"a">>)

C13_InvalidItemsSkipped ==
  \A d \in Deliveries :
    /\ \A n \in 1..Len(run[d].calls) :
         LET c == run[d].calls[n]
         IN  c.op \in {"lookup", "create"} =>
               /\ c.item \in ValidItems
               /\ c.id # 0
               /\ c.id = IF c.op = "lookup" THEN LineItems[c.item].product_id
                         ELSE LineItems[c.item].variant_id
    /\ (run[d].pc = "tag" \/ (run[d].pc = "done" /\ run[d].text = "Split processed")) =>
         \A k \in ValidItems :
           \E n \in 1..Len(run[d].calls) :
             run[d].calls[n].op = "lookup" /\ run[d].calls[n].item = k

C13_Witness ==
  /\ run[1].pc = "done"
  /\ run[1].text = "Split processed"
  /\ Len(LineItems) = 2
  /\ LineItems[1].product_id # 0 /\ LineItems[1].variant_id = 0
  /\ \E n \in 1..Len(run[1].calls) :
       run[1].calls[n].op = "create" /\ run[1].calls[n].item = 2 /\ run[1].calls[n].res = "ok"

\* C14: when the latest lookup found no matching record, or a record whose value
\* parses to a number that is not positive, its line item gets no creation call,
\* the handler is already past that item, and no call aimed at the original
\* order carries line items.
C14_NoCapacityNoChildren ==
  \A d \in Deliveries :
    LET lookups == CallsOf(d, "lookup")
        c       == lookups[Len(lookups)]
        meta    == run[d].truckloadMeta
        parsed  == ParseInt(meta.value)
    IN  (/\ lookups # <<>>
         /\ c.res \in {"ok", "notok"}
         /\ ~meta.threw
         /\ ~meta.found \/ (parsed.finite /\ parsed.n <= 0)) =>
          /\ CreateCallsOf(d, c.item) = <<>>
          /\ LoopFinished(d, c.item)
          /\ run[d].pc \in {"lookup", "tag", "done"}
          /\ run[d].pc = "lookup" => run[d].item = NextValidItem(LineItems, c.item + 1)
          /\ \A n \in 1..Len(run[d].calls) :
               run[d].calls[n].target = "original order" =>
                 "line_items" \notin run[d].calls[n].fields

C14_Witness ==
  /\ run[1].pc = "lookup"
  /\ run[1].item = 2
  /\ run[1].truckloadMeta.found
  /\ run[1].truckloadMeta.value = <<"-", "1">>
  /\ Len(run[1].calls) = 1

\* C15: a line item whose quantity does not exceed its capacity gets no creation
\* call.
C15_NoCreationWhenFits ==
  \A d \in Deliveries : \A n \in 1..Len(run[d].calls) :
    LET c == run[d].calls[n]
    IN  c.op = "lookup" /\ c.cap > 0 /\ LineItems[c.item].quantity <= c.cap =>
          CreateCallsOf(d, c.item) = <<>>

\* C16: the only call a run aims at the original order is one tag update, whose
\* payload names the order identifier and the tags and nothing else.
C16_OnlyTagUpdateTouchesOriginal ==
  \A d \in Deliveries :
    /\ \A n \in 1..Len(run[d].calls) :
         LET c == run[d].calls[n]
         IN  /\ c.target = "original order" <=> c.op = "tag"
             /\ c.op = "tag" => c.fields = {"id", "tags"}
             /\ c.op = "lookup" => c.target = "product"
             /\ c.op = "create" => c.target = "new order"
    /\ Len(CallsOf(d, "tag")) <= 1

C16_Witness ==
  /\ run[1].pc = "done"
  /\ Len(CallsOf(1, "tag")) = 1
  /\ LastCall(1).res = "ok"
  /\ Len(CallsOf(1, "create")) >= 2

\* C17: the guard short-circuits a delivery exactly when one of the order's tags
\* is Split-Processed.
C17_GuardIsTagMembership ==
  \A d \in Deliveries :
    run[d].pc # "idle" /\ run[d].tags.kind = "str" =>
      (run[d].text = "Already processed" <=> SplitProcessed \in TagsOf(run[d].tags.v[1]))

\* C18: the calls of a run come in order: a lookup follows only calls of earlier
\* line items; a creation call follows its item's lookup with shipment 1 or the
\* previous shipment of the same item with the next index, and carries the
\* partition entry of that index; the tag update is last.
C18_CallsInOrder ==
  \A d \in Deliveries : \A n \in 1..Len(run[d].calls) :
    LET c == run[d].calls[n]
    IN  /\ c.op = "lookup" =>
             \A m \in 1..(n - 1) : run[d].calls[m].op # "tag" /\ run[d].calls[m].item < c.item
        /\ c.op = "create" =>
             /\ n > 1
             /\ LET prev == run[d].calls[n - 1]
                    cap  == LookupOf(d, c.item).cap
                    q    == LineItems[c.item].quantity
                IN  /\ prev.item = c.item
                    /\ \/ prev.op = "lookup" /\ c.idx = 1
                       \/ prev.op = "create" /\ c.idx = prev.idx + 1
                    /\ cap > 0
                    /\ c.qty = IF c.idx <= q \div cap THEN cap ELSE q % cap
        /\ c.op = "tag" => n = Len(run[d].calls)

C18_Witness ==
  /\ run[1].pc = "done"
  /\ Len(run[1].calls) = 7
  /\ run[1].calls[1].op = "lookup" /\ run[1].calls[1].item = 1
  /\ run[1].calls[3].op = "create" /\ run[1].calls[3].idx = 2
  /\ run[1].calls[4].op = "lookup" /\ run[1].calls[4].item = 2
  /\ run[1].calls[6].op = "create" /\ run[1].calls[6].idx = 2 /\ run[1].calls[6].qty = 1
  /\ run[1].calls[7].op = "tag"

\* C19: when every creation call of a split line item has succeeded, the child
\* orders made for it each carry that item's variant and a quantity in
\* (0, capacity], and their quantities sum to the line item's quantity.
C19_ChildrenConserveQuantity ==
  \A d \in Deliveries : \A n \in 1..Len(run[d].calls) :
    LET c    == run[d].calls[n]
        k    == c.item
        made == CreateCallsOf(d, k)
    IN  (/\ IsSplitLookup(c)
         /\ LoopFinished(d, k)
         /\ \A m \in 1..Len(made) : made[m].res = "ok") =>
          /\ made # <<>>
          /\ \A m \in 1..Len(made) :
               /\ made[m].id = LineItems[k].variant_id
               /\ made[m].qty > 0
               /\ made[m].qty <= c.cap
          /\ SeqSum([m \in 1..Len(made) |-> made[m].qty]) = LineItems[k].quantity
          /\ Children(k) = Len(made)

C19_Witness ==
  /\ run[1].pc = "done"
  /\ \E n \in 1..Len(run[1].calls) :
       LET c == run[1].calls[n]
       IN  /\ IsSplitLookup(c)
           /\ c.cap = 2
           /\ LineItems[c.item].quantity = 3
           /\ Children(c.item) = 2

\* C20: for every q > 0 and c > 0 the floor/remainder fill, the greedy loop and
\* the ceil-loads loop yield the same sequence: floor(q/c) entries of c, then
\* q mod c when that is not 0.
C20_PartitionsAgree ==
  (part.done /\ part.q > 0 /\ part.remaining = 0 /\ part.loadsDone) =>
    LET full == part.q \div part.c
        rest == part.q % part.c
    IN  /\ part.greedy = part.result
        /\ part.loads = part.result
        /\ Len(part.result) = full + (IF rest # 0 THEN 1 ELSE 0)
        /\ \A n \in 1..full : part.result[n] = part.c
        /\ rest # 0 => part.result[full + 1] = rest

C20_Witness ==
  /\ part.done /\ part.q > 0 /\ part.remaining = 0 /\ part.loadsDone
  /\ part.q % part.c = 0
  /\ Len(part.loads) >= 2

\* C21: a capacity lookup answered with a non-success status is reported as a
\* failure of the lookup, and is never handled as "no capacity found".
C21_NonSuccessLookupReported ==
  \A d \in Deliveries :
    LET lookups == CallsOf(d, "lookup")
    IN  lookups # <<>> /\ lookups[Len(lookups)].res = "notok" =>
          /\ run[d].report = "error"
          /\ run[d].report # "no capacity"

\* C22: the record the capacity is read from is the first one, in the order of
\* the answer, whose key is truckload_capacity and whose namespace is custom or
\* logistics, whichever of the two namespaces it has.
C22_FirstMatchingRecordWins ==
  \A chosen \in {part.truckloadMeta, part.capacityMf} :
    chosen.searched /\ ~chosen.threw =>
      LET m        == part.metafields
          matching == {n \in 1..Len(m) :
                         /\ m[n].key = "truckload_capacity"
                         /\ m[n].namespace \in {"custom", "logistics"}}
      IN  IF matching = {} THEN ~chosen.found
          ELSE /\ chosen.found
               /\ chosen.value = m[CHOOSE n \in matching : \A o \in matching : n <= o].value

\* C26: the greedy loop ends for every capacity that reaches it: each pass
\* leaves less remaining than the pass before it found (or leaves the loop at
\* once), so that no pass can be repeated for ever.
C26_GreedyLoopTerminates ==
  [][part'.splitQuantities # part.splitQuantities =>
       \/ part'.remainingNaN
       \/ part'.remaining >= 0 /\ part'.remaining < part.remaining]_vars

\* the order of delivery d when two different orders are notified
OrderOf(d) == IF d = 2 THEN [id |-> 2, tags |-> other.tags, line_items |-> other.line_items.items]
              ELSE [id |-> 1, tags |-> order.tags, line_items |-> LineItems]

\* what of a call the external system is sent
Sent(c) == <<c.op, c.item, c.id, c.idx, c.qty, c.parent, c.tags>>

\* the capacity delivery d has been answered for line item k, 0 when none yet
CapSeen(d, k) ==
  IF \E n \in 1..Len(run[d].calls) : run[d].calls[n].op = "lookup" /\ run[d].calls[n].item = k
  THEN LookupOf(d, k).cap ELSE 0

\* the calls a handler working on order o alone sends from line item k on, given
\* the capacities delivery d was answered
RECURSIVE AloneFrom(_, _, _)
AloneFrom(d, o, k) ==
  IF k > Len(o.line_items)
  THEN IF o.tags.kind = "list" THEN <<>>
       ELSE <<<<"tag", 0, o.id, 0, 0, 0,
                IF o.tags.kind = "none" \/ Trim(o.tags.v[1]) = <<>> THEN SplitProcessed
                ELSE Trim(o.tags.v[1]) \o Separator \o SplitProcessed>>>>
  ELSE LET item == o.line_items[k]
           cap  == CapSeen(d, k)
           n    == IF cap > 0 /\ item.quantity > cap THEN (item.quantity + cap - 1) \div cap ELSE 0
       IN  IF item.product_id = 0 \/ item.variant_id = 0 THEN AloneFrom(d, o, k + 1)
           ELSE <<<<"lookup", k, item.product_id, 0, 0, 0, <<>>>>>>
                  \o [i \in 1..n |->
                        <<"create", k, item.variant_id, i,
                          IF i <= item.quantity \div cap THEN cap ELSE item.quantity % cap,
                          o.id, <<>>>>]
                  \o AloneFrom(d, o, k + 1)

Alone(d, o) ==
  IF HasSentinel(o.tags) \/ Len(o.line_items) = 0 THEN <<>> ELSE AloneFrom(d, o, 1)

\* C23: with two different orders handled concurrently, what each run sends is,
\* at every moment, the beginning of what a run of its own order alone sends,
\* and all of it once the run has answered; every child names its own order as
\* parent, and each order's tags are written by its own run only.
C23_OrdersDoNotInterfere ==
  other.present =>
    /\ \A d \in Deliveries :
         LET sent  == [n \in 1..Len(run[d].calls) |-> Sent(run[d].calls[n])]
             alone == Alone(d, OrderOf(d))
         IN  /\ Len(sent) <= Len(alone)
             /\ sent = SubSeq(alone, 1, Len(sent))
             /\ run[d].pc = "done" => sent = alone
             /\ \A n \in 1..Len(run[d].calls) :
                  run[d].calls[n].op = "create" => run[d].calls[n].parent = OrderOf(d).id
    /\ storeTags # order.tags =>
         run[1].calls # <<>> /\ LastCall(1).res = "ok" /\ storeTags = StrTags(LastCall(1).tags)
    /\ other.storeTags # other.tags =>
         run[2].calls # <<>> /\ LastCall(2).res = "ok"
           /\ other.storeTags = StrTags(LastCall(2).tags)

C23_Witness ==
  /\ other.present
  /\ run[1].pc = "create" /\ run[2].pc = "create"
  /\ Len(CallsOf(1, "create")) >= 1 /\ Len(CallsOf(2, "create")) >= 1
  /\ run[1].line_items # run[2].line_items

\* the tags an order carries in the external system
StoreTagSet(tags) ==
  CASE tags.kind = "none" -> {}
    [] tags.kind = "str"  -> TagsOf(tags.v[1]) \ {<<>>}
    [] tags.kind = "list" -> {tags.v[n] : n \in 1..Len(tags.v)}

\* C24: a tag update that is applied leaves on the original order every tag it
\* carried in the external system just before, also one that another actor
\* added after the notification was sent.
C24_TagUpdateKeepsStoreTags ==
  [][\A d \in Deliveries :
       (run[d].pc = "tag" /\ run'[d].pc = "done" /\ storeTags' # storeTags) =>
         StoreTagSet(storeTags) \subseteq StoreTagSet(storeTags')]_vars

\* C25: provided every external call is settled in the end, every run of the
\* handler that has started ends, whatever the order and whatever the outcomes
\* of its calls, and the inbound caller is sent exactly one answer: none before
\* the run ends, one when it ends, and nothing more after that.
C25_EveryRunAnswersOnce ==
  /\ \A d \in Deliveries : (run[d].pc # "idle") ~> (run[d].pc = "done")
  /\ [][\A d \in Deliveries :
          /\ run'[d].responses = IF run'[d].pc = "done" THEN 1 ELSE 0
          /\ run[d].pc = "done" => run'[d] = run[d]]_vars

C25_Witness ==
  /\ run[1].pc = "done"
  /\ run[1].responses = 1
  /\ Len(run[1].calls) = 5
  /\ run[1].calls[1].op = "lookup" /\ run[1].calls[1].res = "throw"
  /\ run[1].calls[2].op = "lookup" /\ run[1].calls[2].res = "ok"
  /\ run[1].calls[3].op = "create" /\ run[1].calls[3].res = "throw"
  /\ run[1].calls[4].op = "create" /\ run[1].calls[4].res = "notok"
  /\ run[1].calls[5].op = "tag" /\ run[1].calls[5].res = "throw"

====
